---- MODULE Spec2Model ----
(***************************************************************************)
(* thread::spawn_task (src/src/thread/spawn_task.rs): a blocking bridge    *)
(* that drives one future to completion on the calling thread.             *)
(*                                                                         *)
(* Each execution unit (thread) owns a stack of spawn_task calls (a call   *)
(* made from inside the poll of another call's future nests), a park       *)
(* token, the worker's "current task" association and the thread-local     *)
(* Arc<Thread> that backs every waker of the unit.  Waker clones that      *)
(* left the unit (stored by timers, channels, other threads) are counted   *)
(* in held[u]; anybody may wake, clone or drop them at any time.           *)
(***************************************************************************)
EXTENDS Integers, Sequences, FiniteSets, TLC

\* ------------------------------------------------------------------ bounds
MaxCalls == 2
MaxDepth == 2
MaxPending == 1
MaxClones == 1

Units == {1, 2}
\* The units that call spawn_task under Spec, LiveSpec and HistSpec; the
\* other units take part through the waker clones they hold.  Under TwoSpec
\* every unit calls.
Callers == {1}
Values == {42, 43}
Payloads == {7, 8}

VARIABLES
    stack,      \* stack[u]: the spawn_task calls active on unit u, outermost first
    token,      \* token[u]: the park/unpark token of unit u's thread
    current,    \* current[u]: id of the task current on unit u (worker TAG), 0 if none
    tls,        \* tls[u]: state of the thread-local ARC_THREAD: "uninit", "live", "dead"
    rc,         \* rc[u]: strong count of the Arc<Thread> of unit u
    released,   \* released[u]: how many times the Arc's backing Thread was released
    held,       \* held[u]: waker clones of unit u alive outside the poll loop
    trace,      \* trace[u]: the trace events unit u emitted, in order
    ret,        \* ret[u]: what the spawn_task call that last exited on unit u
                \* delivered to its caller, kept until the caller moves on: it
                \* enters another call or, for a nested call, the enclosing
                \* computation's poll ends
    nextId,     \* the next task id Tag::new mints
    wakePending \* wakePending[u]: wakes issued on u since a park last consumed the
                \* token: 0, 1, or 2 for two or more

vars == <<stack, token, current, tls, rc, released, held, trace, ret, nextId, wakePending>>

\* ------------------------------------------------------------ value shapes
\* Option<thread::Result<T>>: the `out` slot of spawn_task.
None == [tag |-> "none", v |-> 0]
Ok(v) == [tag |-> "ok", v |-> v]
Err(p) == [tag |-> "err", v |-> p]

\* What one poll of the user future does: Poll::Ready(v), Poll::Pending, or a panic.
Ready(v) == [kind |-> "ready", v |-> v]
Pending == [kind |-> "pending", v |-> 0]
Panic(p) == [kind |-> "panic", v |-> p]
NotPolled == [kind |-> "none", v |-> 0]

\* Faulty variant: the caught payload is replaced by a fixed one.
CatchUnwindPoll_DropPayload(r) ==
    CASE r.kind = "panic" -> Ready(Err(CHOOSE p \in Payloads : \A q \in Payloads : p <= q))
      [] r.kind = "ready" -> Ready(Ok(r.v))
      [] OTHER -> Pending

\* Faulty variant: a caught panic is swallowed and reported as "not yet".
CatchUnwindPoll_Swallow(r) ==
    CASE r.kind = "ready" -> Ready(Ok(r.v))
      [] OTHER -> Pending

\* CatchUnwindFuture::poll: catch_unwind(|| future.poll(cx))?.map(Ok).
\* A caught panic becomes Ready(Err(payload)) through `?`, Ready(v) becomes
\* Ready(Ok(v)) through map, Pending stays Pending.
CatchUnwindPoll(r) ==
    CASE r.kind = "panic" -> Ready(Err(r.v))
      [] r.kind = "ready" -> Ready(Ok(r.v))
      [] OTHER -> Pending

\* Faulty variant: the two arms of the match are exchanged.
TakeOut_Swapped(o) ==
    IF o.tag = "ok" THEN [how |-> "raise", val |-> o.v]
    ELSE [how |-> "return", val |-> o.v]

\* The match on the taken outcome: Ok(v) => v, Err(err) => resume_unwind(err).
TakeOut(o) ==
    IF o.tag = "ok" THEN [how |-> "return", val |-> o.v]
    ELSE [how |-> "raise", val |-> o.v]

\* --------------------------------------------------------------- helpers
\* A call on the stack is a record:
\*   id, parent   child_id and parent_id of lines 65-66
\*   prior        the task that was current when set_tag installed the tag
\*   pc           where the call is: "poll" (loop about to poll), "user" (in
\*                the user future's poll), "park" (poll returned Pending),
\*                "parked" (blocked in thread::park), "finalize", "traceEnd",
\*                "blockRet" (the rest of the completing poll), "take"
\*   out          the out slot
\* and, as history of the call for the properties:
\*   prod         the outcome of the user poll that ended the computation
\*   pend, parks  polls that reported "not yet"; calls of thread::park
\*   quick        parks that returned at once
\*   fin, log     runs of the finalizers; the call's events in order
\*   reg          live waker clones made for this call
\*   wokenNested  a wake was issued for this call, during its current poll,
\*                while a call nested in that poll was active (HistSpec)
\*   stale        a wake on a stale waker was issued during the call (HistSpec)
Depth(u) == Len(stack[u])
Top(u) == stack[u][Len(stack[u])]
Running(u) == Depth(u) > 0
AtPc(u, p) == Running(u) /\ Top(u).pc = p
SetTop(u, f) == [stack EXCEPT ![u] = [@ EXCEPT ![Len(@)] = f]]

NoRet == [id |-> 0, parent |-> 0, how |-> "none", val |-> 0, prod |-> NotPolled,
          pend |-> 0, parks |-> 0, quick |-> 0, fin |-> 0, log |-> <<>>,
          stale |-> FALSE]

\* ------------------------------------------------ collaborators (crate::task)
\* task::Tag::new: a fresh identity from a global counter.
TagNew == nextId

\* worker::get_task(|t| t.id()): the id of the task current on the unit, if any.
get_task(u) == current[u]

\* worker::set_tag(&tag, f): install the tag for the duration of f ...
set_tag_install(u, id) == [current EXCEPT ![u] = id]

\* Faulty variant: the association is cleared instead of restored.
set_tag_restore_null(u, prior) == [current EXCEPT ![u] = 0]

\* ... and put the prior association back when f exits.
set_tag_restore(u, prior) == [current EXCEPT ![u] = prior]

\* task_local::add_finalizer: after the wrapped future completed, run the
\* finalizers of its task-local storage.
add_finalizer(f) == [f EXCEPT !.fin = @ + 1, !.log = Append(@, "finalized")]

\* ------------------------------------------------------------------- Init
Init ==
    /\ stack = [u \in Units |-> <<>>]
    /\ token = [u \in Units |-> FALSE]
    /\ current = [u \in Units |-> 0]
    /\ tls = [u \in Units |-> "uninit"]
    /\ rc = [u \in Units |-> 0]
    /\ released = [u \in Units |-> 0]
    /\ held = [u \in Units |-> 0]
    /\ trace = [u \in Units |-> <<>>]
    /\ ret = [u \in Units |-> NoRet]
    /\ nextId = 1
    /\ wakePending = [u \in Units |-> 0]

\* ------------------------------------------------------- the Arc<Thread>
\* Arc::clone followed by mem::forget: one more strong reference.
ArcInc(u) == rc' = [rc EXCEPT ![u] = @ + 1] /\ UNCHANGED released

\* drop(Arc): one strong reference less; the Thread is released at zero.
ArcDec(u) ==
    /\ rc' = [rc EXCEPT ![u] = @ - 1]
    /\ released' = [released EXCEPT ![u] = IF rc[u] - 1 = 0 THEN @ + 1 ELSE @]

\* Faulty variant: the wake unparks whichever thread calls it.
Unpark_Caller(u) == \E c \in Units : token' = [token EXCEPT ![c] = TRUE]

\* Thread::unpark: make the token available (at most one is kept).
Unpark(u) == token' = [token EXCEPT ![u] = TRUE]

\* Bookkeeping: a wake has been issued on a waker of unit u.
WakeIssued(u) == wakePending' = [wakePending EXCEPT ![u] = IF @ < 2 THEN @ + 1 ELSE 2]

\* ------------------------------------------------------------ spawn_task
\* Faulty variant: the parent is looked up after the new tag became current.
spawn_task_enter_LateLookup(u) ==
    /\ tls[u] # "dead"
    /\ nextId <= MaxCalls
    /\ \/ Depth(u) = 0
       \/ AtPc(u, "user") /\ Depth(u) < MaxDepth
    /\ LET child_id == TagNew
           parent_id == child_id
           f == [id |-> child_id, parent |-> parent_id, prior |-> current[u],
                 pc |-> "poll", out |-> None, prod |-> NotPolled, pend |-> 0,
                 parks |-> 0, quick |-> 0, fin |-> 0, log |-> <<>>,
                 reg |-> 0, wokenNested |-> FALSE, stale |-> FALSE]
       IN  /\ stack' = [stack EXCEPT ![u] = Append(@, f)]
           /\ trace' = [trace EXCEPT ![u] = Append(@,
                  [ev |-> "spawn_task", parent_id |-> parent_id, child_id |-> child_id])]
           /\ current' = set_tag_install(u, child_id)
           /\ nextId' = nextId + 1
    /\ tls' = [tls EXCEPT ![u] = "live"]
    /\ rc' = [rc EXCEPT ![u] = IF tls[u] = "uninit" THEN 1 ELSE @]
    /\ ret' = [ret EXCEPT ![u] = NoRet]
    /\ UNCHANGED <<token, released, held, wakePending>>

\* Lines 46-94 up to the call of block: the out slot, the tag, the start
\* trace event, the wrapped future, set_tag installing the tag, and block
\* reading the thread-local ARC_THREAD (created on first use).
spawn_task_enter(u) ==
    /\ tls[u] # "dead"
    /\ nextId <= MaxCalls
    /\ \/ Depth(u) = 0
       \/ AtPc(u, "user") /\ Depth(u) < MaxDepth
    /\ LET child_id == TagNew
           parent_id == IF get_task(u) # 0 THEN get_task(u) ELSE 0
           f == [id |-> child_id, parent |-> parent_id, prior |-> current[u],
                 pc |-> "poll", out |-> None, prod |-> NotPolled, pend |-> 0,
                 parks |-> 0, quick |-> 0, fin |-> 0, log |-> <<>>,
                 reg |-> 0, wokenNested |-> FALSE, stale |-> FALSE]
       IN  /\ stack' = [stack EXCEPT ![u] = Append(@, f)]
           /\ trace' = [trace EXCEPT ![u] = Append(@,
                  [ev |-> "spawn_task", parent_id |-> parent_id, child_id |-> child_id])]
           /\ current' = set_tag_install(u, child_id)
           /\ nextId' = nextId + 1
    /\ tls' = [tls EXCEPT ![u] = "live"]
    /\ rc' = [rc EXCEPT ![u] = IF tls[u] = "uninit" THEN 1 ELSE @]
    /\ ret' = [ret EXCEPT ![u] = NoRet]
    /\ UNCHANGED <<token, released, held, wakePending>>

\* block, line 138: the loop calls f.as_mut().poll(cx); control enters the
\* user future through the wrappers.
poll_start(u) ==
    /\ AtPc(u, "poll")
    /\ stack' = SetTop(u, [Top(u) EXCEPT !.pc = "user", !.wokenNested = FALSE])
    /\ UNCHANGED <<token, current, tls, rc, released, held, trace, ret, nextId, wakePending>>

\* Faulty variant: a captured failure leaves the wrappers at once, as if the
\* catch were the outermost wrapper.
PollOutcome_CatchOutermost(u, r) ==
    /\ AtPc(u, "user")
    /\ LET w == CatchUnwindPoll(r)
           f == Top(u)
       IN  stack' = SetTop(u,
              IF w.kind = "ready"
              THEN [f EXCEPT !.pc = IF w.v.tag = "err" THEN "blockRet" ELSE "finalize",
                             !.out = w.v, !.prod = r,
                             !.log = Append(@, IF w.v.tag = "err" THEN "captured" ELSE "stored")]
              ELSE [f EXCEPT !.pc = "park", !.pend = @ + 1,
                             !.prod = IF r.kind = "pending" THEN @ ELSE r])
    /\ ret' = [ret EXCEPT ![u] = NoRet]
    /\ UNCHANGED <<token, current, tls, rc, released, held, trace, nextId, wakePending>>

\* Faulty variant: the prior current task is put back as soon as the user
\* future has ended, before the finalizers and the completion event.
PollOutcome_EarlyRestore(u, r) ==
    /\ AtPc(u, "user")
    /\ LET w == CatchUnwindPoll(r)
           f == Top(u)
       IN  /\ stack' = SetTop(u,
                  IF w.kind = "ready"
                  THEN [f EXCEPT !.pc = "finalize", !.out = w.v, !.prod = r,
                                 !.log = Append(@, IF w.v.tag = "err" THEN "captured" ELSE "stored")]
                  ELSE [f EXCEPT !.pc = "park", !.pend = @ + 1,
                                 !.prod = IF r.kind = "pending" THEN @ ELSE r])
           /\ current' = IF w.kind = "ready" THEN set_tag_restore(u, f.prior) ELSE current
    /\ ret' = [ret EXCEPT ![u] = NoRet]
    /\ UNCHANGED <<token, tls, rc, released, held, trace, nextId, wakePending>>

\* Faulty variant: a captured failure ends the polling but is not stored.
PollOutcome_NoStoreOnPanic(u, r) ==
    /\ AtPc(u, "user")
    /\ LET w == CatchUnwindPoll(r)
           f == Top(u)
       IN  stack' = SetTop(u,
              IF w.kind = "ready"
              THEN [f EXCEPT !.pc = "finalize",
                             !.out = IF w.v.tag = "err" THEN @ ELSE w.v, !.prod = r,
                             !.log = IF w.v.tag = "err" THEN @ ELSE Append(@, "stored")]
              ELSE [f EXCEPT !.pc = "park", !.pend = @ + 1,
                             !.prod = IF r.kind = "pending" THEN @ ELSE r])
    /\ ret' = [ret EXCEPT ![u] = NoRet]
    /\ UNCHANGED <<token, current, tls, rc, released, held, trace, nextId, wakePending>>

\* The user future's poll ends with raw outcome r.  CatchUnwindFuture turns it
\* into Poll<thread::Result<T>> (line 116); when that is Ready the wrapper of
\* line 57 stores it into out, otherwise Pending travels up to block, which
\* goes on to park (lines 138-141).
PollOutcome(u, r) ==
    /\ AtPc(u, "user")
    /\ LET w == CatchUnwindPoll(r)
           f == Top(u)
       IN  stack' = SetTop(u,
              IF w.kind = "ready"
              THEN [f EXCEPT !.pc = "finalize", !.out = w.v, !.prod = r,
                             !.log = Append(@, IF w.v.tag = "err" THEN "captured" ELSE "stored")]
              ELSE [f EXCEPT !.pc = "park", !.pend = @ + 1,
                             !.prod = IF r.kind = "pending" THEN @ ELSE r])
    /\ ret' = [ret EXCEPT ![u] = NoRet]
    /\ UNCHANGED <<token, current, tls, rc, released, held, trace, nextId, wakePending>>

poll_ready(u, v) == PollOutcome(u, Ready(v))

poll_panic(u, p) == PollOutcome(u, Panic(p))

\* Faulty variant: after "not yet" the loop polls again without parking.
poll_pending_BusyLoop(u) ==
    /\ AtPc(u, "user")
    /\ Top(u).pend < MaxPending
    /\ stack' = SetTop(u, [Top(u) EXCEPT !.pc = "poll", !.pend = @ + 1])
    /\ ret' = [ret EXCEPT ![u] = NoRet]
    /\ UNCHANGED <<token, current, tls, rc, released, held, trace, nextId, wakePending>>

poll_pending(u) == AtPc(u, "user") /\ Top(u).pend < MaxPending /\ PollOutcome(u, Pending)

\* Faulty variant: the future is not wrapped by add_finalizer.
finalize_Skipped(u) ==
    /\ AtPc(u, "finalize")
    /\ stack' = SetTop(u, [Top(u) EXCEPT !.pc = "traceEnd"])
    /\ UNCHANGED <<token, current, tls, rc, released, held, trace, ret, nextId, wakePending>>

\* Lines 73-74: the future returned by add_finalizer resumes after the
\* out-storing future completed and runs the task-local finalizers.
finalize(u) ==
    /\ AtPc(u, "finalize")
    /\ stack' = SetTop(u, [add_finalizer(Top(u)) EXCEPT !.pc = "traceEnd"])
    /\ UNCHANGED <<token, current, tls, rc, released, held, trace, ret, nextId, wakePending>>

\* Faulty variant: the completion event looks the parent up again.
trace_completed_Relookup(u) ==
    /\ AtPc(u, "traceEnd")
    /\ LET f == Top(u)
       IN  /\ trace' = [trace EXCEPT ![u] = Append(@,
                  [ev |-> "spawn_task completed", parent_id |-> get_task(u), child_id |-> f.id])]
           /\ stack' = SetTop(u, [f EXCEPT !.pc = "blockRet", !.log = Append(@, "completed")])
    /\ UNCHANGED <<token, current, tls, rc, released, held, ret, nextId, wakePending>>

\* Lines 76-82: after future.await the outermost async block emits the
\* completion trace event and completes; block returns (line 139).
trace_completed(u) ==
    /\ AtPc(u, "traceEnd")
    /\ LET f == Top(u)
       IN  /\ trace' = [trace EXCEPT ![u] = Append(@,
                  [ev |-> "spawn_task completed", parent_id |-> f.parent, child_id |-> f.id])]
           /\ stack' = SetTop(u, [f EXCEPT !.pc = "blockRet", !.log = Append(@, "completed")])
    /\ UNCHANGED <<token, current, tls, rc, released, held, ret, nextId, wakePending>>

\* Line 94: block has returned inside set_tag, whose scope ends here.
block_return(u) ==
    /\ AtPc(u, "blockRet")
    /\ current' = set_tag_restore(u, Top(u).prior)
    /\ stack' = SetTop(u, [Top(u) EXCEPT !.pc = "take", !.log = Append(@, "restored")])
    /\ UNCHANGED <<token, tls, rc, released, held, trace, ret, nextId, wakePending>>

\* Lines 96-100: take the outcome out of the slot; return the value or
\* resume the captured panic.  The call's frame is gone afterwards and the
\* caller (the poll of the enclosing call's future, if nested) goes on.
take_out(u) ==
    /\ AtPc(u, "take")
    /\ LET f == Top(u)
           t == TakeOut(f.out)
       IN  /\ ret' = [ret EXCEPT ![u] =
                  [id |-> f.id, parent |-> f.parent, how |-> t.how, val |-> t.val,
                   prod |-> f.prod, pend |-> f.pend, parks |-> f.parks, quick |-> f.quick,
                   fin |-> f.fin, stale |-> f.stale,
                   log |-> Append(f.log, IF t.how = "raise" THEN "raised" ELSE "returned")]]
           /\ stack' = [stack EXCEPT ![u] = SubSeq(@, 1, Len(@) - 1)]
    /\ UNCHANGED <<token, current, tls, rc, released, held, trace, nextId, wakePending>>

\* ------------------------------------------------------------- thread::park
\* Faulty variant: a park that discards the token and blocks.
park_IgnoreToken(u) ==
    /\ AtPc(u, "park")
    /\ stack' = SetTop(u, [Top(u) EXCEPT !.pc = "parked", !.parks = @ + 1])
    /\ token' = [token EXCEPT ![u] = FALSE]
    /\ wakePending' = wakePending
    /\ UNCHANGED <<current, tls, rc, released, held, trace, ret, nextId>>

\* Faulty variant: the token counts wakes, so two wakes let two parks return.
park_Counting(u) ==
    /\ AtPc(u, "park")
    /\ IF token[u]
       THEN /\ token' = [token EXCEPT ![u] = (wakePending[u] = 2)]
            /\ wakePending' = [wakePending EXCEPT ![u] = IF @ = 2 THEN 1 ELSE 0]
            /\ stack' = SetTop(u, [Top(u) EXCEPT !.pc = "poll", !.parks = @ + 1,
                                                 !.quick = @ + 1])
       ELSE /\ stack' = SetTop(u, [Top(u) EXCEPT !.pc = "parked", !.parks = @ + 1])
            /\ UNCHANGED <<token, wakePending>>
    /\ UNCHANGED <<current, tls, rc, released, held, trace, ret, nextId>>

\* Line 141.  park consumes the token and returns at once when it is
\* available, and blocks otherwise.
park(u) ==
    /\ AtPc(u, "park")
    /\ IF token[u]
       THEN /\ token' = [token EXCEPT ![u] = FALSE]
            /\ wakePending' = [wakePending EXCEPT ![u] = 0]
            /\ stack' = SetTop(u, [Top(u) EXCEPT !.pc = "poll", !.parks = @ + 1,
                                                 !.quick = @ + 1])
       ELSE /\ stack' = SetTop(u, [Top(u) EXCEPT !.pc = "parked", !.parks = @ + 1])
            /\ UNCHANGED <<token, wakePending>>
    /\ UNCHANGED <<current, tls, rc, released, held, trace, ret, nextId>>

\* Faulty variant: a wake ends the loop instead of causing another poll.
park_return_NoRepoll(u) ==
    /\ AtPc(u, "parked")
    /\ token[u]
    /\ token' = [token EXCEPT ![u] = FALSE]
    /\ wakePending' = [wakePending EXCEPT ![u] = 0]
    /\ stack' = SetTop(u, [Top(u) EXCEPT !.pc = "blockRet"])
    /\ UNCHANGED <<current, tls, rc, released, held, trace, ret, nextId>>

\* A blocked park returns when the token becomes available, consuming it.
park_return(u) ==
    /\ AtPc(u, "parked")
    /\ token[u]
    /\ token' = [token EXCEPT ![u] = FALSE]
    /\ wakePending' = [wakePending EXCEPT ![u] = 0]
    /\ stack' = SetTop(u, [Top(u) EXCEPT !.pc = "poll"])
    /\ UNCHANGED <<current, tls, rc, released, held, trace, ret, nextId>>

\* Faulty variant: a blocked park gives up and the loop ends.
park_spurious_Timeout(u) ==
    /\ AtPc(u, "parked")
    /\ ~token[u]
    /\ stack' = SetTop(u, [Top(u) EXCEPT !.pc = "blockRet"])
    /\ UNCHANGED <<token, current, tls, rc, released, held, trace, ret, nextId, wakePending>>

\* std documents that park may also return spuriously, without a token
\* (with the token available the return is park_return, which consumes it).
park_spurious(u) ==
    /\ AtPc(u, "parked")
    /\ ~token[u]
    /\ stack' = SetTop(u, [Top(u) EXCEPT !.pc = "poll"])
    /\ UNCHANGED <<token, current, tls, rc, released, held, trace, ret, nextId, wakePending>>

\* ------------------------------------------------------------ the vtable
\* A waker is reachable either inside the user future's poll (cx.waker(),
\* the loop's own ManuallyDrop waker, which can be cloned or woken by
\* reference) or as a clone held somewhere outside.
HasWaker(u) == AtPc(u, "user") \/ held[u] > 0

\* Every waker of a unit is the same pointer and vtable (lines 131-134), so
\* the code cannot tell for which call a clone was made.  For the claims the
\* model remembers it: reg of a call counts the live clones made for it (by
\* its computation's poll, or by cloning such a clone); the other live clones
\* are stale, made for calls that have exited.
RECURSIVE SumReg(_)
SumReg(s) == IF s = <<>> THEN 0 ELSE s[1].reg + SumReg(Tail(s))

Stale(u) == held[u] - SumReg(stack[u])

\* The calls (by position on the stack, 0 for stale) a held clone may belong to.
HeldOrigins(u) ==
    {i \in 1..Len(stack[u]) : stack[u][i].reg > 0} \cup (IF Stale(u) > 0 THEN {0} ELSE {})

\* The same, plus the running computation using cx.waker().
WakerOrigins(u) ==
    HeldOrigins(u) \cup (IF AtPc(u, "user") THEN {Len(stack[u])} ELSE {})

Registered(u, i, d) ==
    IF i = 0 THEN stack
    ELSE [stack EXCEPT ![u] = [@ EXCEPT ![i] = [@ EXCEPT !.reg = @ + d]]]

\* Faulty variant: the cloned Arc is dropped instead of forgotten.
clone_raw_NoForget(u) ==
    /\ held[u] < MaxClones
    /\ \E i \in WakerOrigins(u) : stack' = Registered(u, i, 1)
    /\ held' = [held EXCEPT ![u] = @ + 1]
    /\ UNCHANGED <<rc, released>>
    /\ UNCHANGED <<token, current, tls, trace, ret, nextId, wakePending>>

clone_raw(u) ==
    /\ held[u] < MaxClones
    /\ \E i \in WakerOrigins(u) : stack' = Registered(u, i, 1)
    /\ held' = [held EXCEPT ![u] = @ + 1]
    /\ ArcInc(u)
    /\ UNCHANGED <<token, current, tls, trace, ret, nextId, wakePending>>

\* Faulty variant: the consuming wake releases its share without unparking.
wake_raw_NoUnpark(u) ==
    /\ \E i \in HeldOrigins(u) : stack' = Registered(u, i, -1)
    /\ WakeIssued(u)
    /\ held' = [held EXCEPT ![u] = @ - 1]
    /\ ArcDec(u)
    /\ UNCHANGED <<token, current, tls, trace, ret, nextId>>

wake_raw(u) ==
    /\ \E i \in HeldOrigins(u) : stack' = Registered(u, i, -1)
    /\ Unpark(u)
    /\ WakeIssued(u)
    /\ held' = [held EXCEPT ![u] = @ - 1]
    /\ ArcDec(u)
    /\ UNCHANGED <<current, tls, trace, ret, nextId>>

wake_by_ref_raw(u) ==
    /\ HasWaker(u)
    /\ Unpark(u)
    /\ WakeIssued(u)
    /\ UNCHANGED <<stack, current, tls, rc, released, held, trace, ret, nextId>>

drop_raw(u) ==
    /\ \E i \in HeldOrigins(u) : stack' = Registered(u, i, -1)
    /\ held' = [held EXCEPT ![u] = @ - 1]
    /\ ArcDec(u)
    /\ UNCHANGED <<token, current, tls, trace, ret, nextId, wakePending>>

\* The thread ends: the destructor of the thread-local ARC_THREAD (line 125)
\* drops the share the thread-local held.
thread_exit(u) ==
    /\ Depth(u) = 0
    /\ tls[u] = "live"
    /\ tls' = [tls EXCEPT ![u] = "dead"]
    /\ ArcDec(u)
    /\ UNCHANGED <<stack, token, current, held, trace, ret, nextId, wakePending>>

\* ------------------------------------------------------------------- Next
Next ==
    \E u \in Callers :
        \/ spawn_task_enter(u)
        \/ poll_start(u)
        \/ \E v \in Values : poll_ready(u, v)
        \/ \E p \in Payloads : poll_panic(u, p)
        \/ poll_pending(u)
        \/ finalize(u)
        \/ trace_completed(u)
        \/ block_return(u)
        \/ take_out(u)
        \/ park(u)
        \/ park_return(u)
        \/ park_spurious(u)
        \/ clone_raw(u)
        \/ wake_raw(u)
        \/ wake_by_ref_raw(u)
        \/ drop_raw(u)
        \/ thread_exit(u)

Spec == Init /\ [][Next]_vars

\* ================================================================ claims
Frames(u) == {stack[u][i] : i \in 1..Len(stack[u])}
Exited(u) == ret[u].how # "none"

\* C1: a call whose computation completed without failure returns exactly the
\* value produced by the completing poll, whatever polls reported "not yet"
\* and whatever wakes arrived before.
C1_ReturnsProducedValue ==
    \A u \in Units :
        (Exited(u) /\ ret[u].prod.kind = "ready")
            => (ret[u].how = "return" /\ ret[u].val = ret[u].prod.v)

\* A call returned 43 after a poll that reported "not yet" and a park.
C1_Witness ==
    \E u \in Units :
        ret[u].how = "return" /\ ret[u].val = 43 /\ ret[u].pend >= 1 /\ ret[u].parks >= 1

\* C2: a call whose computation panicked on some poll re-raises a panic with
\* the same payload; it never returns normally and never raises another payload.
C2_PanicPropagates ==
    \A u \in Units :
        (Exited(u) /\ ret[u].prod.kind = "panic")
            => (ret[u].how = "raise" /\ ret[u].val = ret[u].prod.v)

\* A call re-raised payload 8 captured on a poll after the first one.
C2_Witness ==
    \E u \in Units :
        ret[u].how = "raise" /\ ret[u].val = 8 /\ ret[u].pend >= 1

\* C3: the task-local finalizers have run exactly once when a call exits, on
\* the normal and on the captured-failure path, and at every moment of a call
\* they have run once if its computation has ended and not at all before.
C3_FinalizersOnce ==
    \A u \in Units :
        /\ Exited(u) => ret[u].fin = 1
        /\ \A f \in Frames(u) :
               f.fin = IF f.pc \in {"traceEnd", "blockRet", "take"} THEN 1 ELSE 0

\* A call that re-raised a captured failure had its finalizers run once.
C3_Witness ==
    \E u \in Units :
        ret[u].how = "raise" /\ ret[u].fin = 1 /\ ret[u].prod.kind = "panic"

C5_OwnershipBalanced ==
    \A u \in Units :
        /\ rc[u] = (IF tls[u] = "live" THEN 1 ELSE 0) + held[u]
        /\ released[u] <= 1
        /\ released[u] = 1 <=> (tls[u] = "dead" /\ held[u] = 0)

\* A clone outlived its thread and was then consumed: the Thread was released
\* once, by that last share, with a wake delivered on the way.
C5_Witness ==
    \E u \in Units :
        tls[u] = "dead" /\ held[u] = 0 /\ released[u] = 1 /\ rc[u] = 0 /\ token[u]

Occurs(log, e) == {i \in 1..Len(log) : log[i] = e}
Once(log, e) == Cardinality(Occurs(log, e)) = 1
Before(log, a, b) == \A i \in Occurs(log, a) : \A j \in Occurs(log, b) : i < j

\* C6: on the failure path the events of one call happen in this order, each
\* once: failure captured and stored, finalizers run, completion trace event
\* emitted, failure re-raised.
C6_RaiseAfterFinalization ==
    \A u \in Units :
        ret[u].how = "raise" =>
            LET l == ret[u].log
            IN  /\ Once(l, "captured") /\ Once(l, "finalized")
                /\ Once(l, "completed") /\ Once(l, "raised")
                /\ Before(l, "captured", "finalized")
                /\ Before(l, "finalized", "completed")
                /\ Before(l, "completed", "raised")

\* A call re-raised payload 7 captured on its first poll.
C6_Witness ==
    \E u \in Units :
        ret[u].how = "raise" /\ ret[u].val = 7 /\ ret[u].pend = 0
            /\ ret[u].log[Len(ret[u].log)] = "raised"

Events(u, ev, id) ==
    {i \in 1..Len(trace[u]) : trace[u][i].ev = ev /\ trace[u][i].child_id = id}
Started(u, id) == Events(u, "spawn_task", id)
Completed(u, id) == Events(u, "spawn_task completed", id)
SamePair(u, id, parent) ==
    \A i \in 1..Len(trace[u]) :
        trace[u][i].child_id = id => trace[u][i].parent_id = parent

\* C7: a call emits one start event before its first poll and one completion
\* event after its computation ended, and no other; both carry the call's
\* (parent identity, child identity) pair, on the normal and the failure path.
C7_TwoTraceEvents ==
    \A u \in Units :
        /\ \A f \in Frames(u) :
               /\ Cardinality(Started(u, f.id)) = 1
               /\ Cardinality(Completed(u, f.id)) =
                      IF f.pc \in {"blockRet", "take"} THEN 1 ELSE 0
               /\ Completed(u, f.id) # {} => f.out # None
               /\ SamePair(u, f.id, f.parent)
        /\ Exited(u) =>
               /\ Cardinality(Started(u, ret[u].id)) = 1
               /\ Cardinality(Completed(u, ret[u].id)) = 1
               /\ \A i \in Started(u, ret[u].id) :
                      \A j \in Completed(u, ret[u].id) : i < j
               /\ SamePair(u, ret[u].id, ret[u].parent)

\* A nested call failed: the unit has emitted the enclosing call's start event
\* and both events of the nested call.
C7_Witness ==
    \E u \in Units :
        /\ ret[u].how = "raise" /\ ret[u].parent # 0
        /\ Cardinality(Completed(u, ret[u].id)) = 1
        /\ Len(trace[u]) = 3

\* C8: the parent identity of a call's start event is the identity of the
\* task current on the unit when the call began: the enclosing call's own
\* identity for a nested call, the sentinel 0 for an outermost call.
C8_ParentIsCurrentTask ==
    \A u \in Units :
        \A i \in 1..Len(stack[u]) :
            LET f == stack[u][i]
                outer == IF i = 1 THEN 0 ELSE stack[u][i - 1].id
            IN  /\ f.id # outer
                /\ \A k \in Started(u, f.id) : trace[u][k].parent_id = outer

\* A call is running nested inside another and its start event names the
\* enclosing call as parent.
C8_Witness ==
    \E u \in Units :
        /\ Len(stack[u]) = 2
        /\ \E k \in Started(u, stack[u][2].id) :
               trace[u][k].parent_id = stack[u][1].id /\ trace[u][k].parent_id # 0

\* C9: when a call has exited, the unit's current task is what it was before
\* the call: none (0) after an outermost call, the enclosing call's identity
\* after a nested call, whether the call returned or re-raised.
C9_CurrentTaskRestored ==
    \A u \in Units :
        /\ Len(stack[u]) = 0 => current[u] = 0
        /\ AtPc(u, "user") => current[u] = Top(u).id
        /\ AtPc(u, "take") =>
               current[u] = IF Len(stack[u]) = 1 THEN 0
                            ELSE stack[u][Len(stack[u]) - 1].id

\* A nested call re-raised and the enclosing call's identity is current again.
C9_Witness ==
    \E u \in Units :
        /\ ret[u].how = "raise" /\ ret[u].parent # 0
        /\ AtPc(u, "user") /\ Top(u).id = ret[u].parent
        /\ current[u] = ret[u].parent

\* ------------------------------------------------------------- liveness
\* The setting of C10: one un-nested call at a time; every poll that reports
\* "not yet" is matched by a wake (a clone of the handle is outstanding, or a
\* wake has already been delivered, when the poll returns); whoever holds a
\* clone wakes it, before, during or after the park; parks do not return
\* spuriously.  The computation reports "not yet" at most MaxPending times.
live_spawn(u) == Depth(u) = 0 /\ spawn_task_enter(u)

live_pending(u) == (held[u] > 0 \/ token[u]) /\ poll_pending(u)

UnitStep(u) ==
    \/ poll_start(u)
    \/ \E v \in Values : poll_ready(u, v)
    \/ \E p \in Payloads : poll_panic(u, p)
    \/ live_pending(u)
    \/ finalize(u)
    \/ trace_completed(u)
    \/ block_return(u)
    \/ take_out(u)
    \/ park(u)
    \/ park_return(u)

NextLive ==
    \E u \in Callers :
        \/ live_spawn(u)
        \/ UnitStep(u)
        \/ clone_raw(u)
        \/ wake_raw(u)
        \/ thread_exit(u)

\* The calling thread keeps running and every held clone is eventually woken.
LiveSpec ==
    /\ Init
    /\ [][NextLive]_vars
    /\ \A u \in Callers : WF_vars(UnitStep(u)) /\ WF_vars(wake_raw(u))

Woken(st, u, i) ==
    [st EXCEPT ![u] =
        [k \in 1..Len(@) |->
            IF i = 0 THEN [@[k] EXCEPT !.stale = TRUE]
            ELSE IF k = i /\ i < Len(@) THEN [@[k] EXCEPT !.wokenNested = TRUE]
            ELSE @[k]]]

hist_spawn(u) == Depth(u) <= 1 /\ spawn_task_enter(u)

hist_wake_raw(u) ==
    /\ \E i \in HeldOrigins(u) : stack' = Woken(Registered(u, i, -1), u, i)
    /\ Unpark(u)
    /\ WakeIssued(u)
    /\ held' = [held EXCEPT ![u] = @ - 1]
    /\ ArcDec(u)
    /\ UNCHANGED <<current, tls, trace, ret, nextId>>

hist_wake_by_ref_raw(u) ==
    /\ \E i \in WakerOrigins(u) : stack' = Woken(stack, u, i)
    /\ Unpark(u)
    /\ WakeIssued(u)
    /\ UNCHANGED <<current, tls, rc, released, held, trace, ret, nextId>>

NextHist ==
    \E u \in Callers :
        \/ hist_spawn(u)
        \/ poll_start(u)
        \/ \E v \in Values : poll_ready(u, v)
        \/ \E p \in Payloads : poll_panic(u, p)
        \/ poll_pending(u)
        \/ finalize(u)
        \/ trace_completed(u)
        \/ block_return(u)
        \/ take_out(u)
        \/ park(u)
        \/ park_return(u)
        \/ park_spurious(u)
        \/ clone_raw(u)
        \/ hist_wake_raw(u)
        \/ hist_wake_by_ref_raw(u)
        \/ drop_raw(u)
        \/ thread_exit(u)

HistSpec == Init /\ [][NextHist]_vars

\* C11: a wake issued for the outer call's computation while a call nested
\* in its poll is active is not lost: when the outer poll has then reported
\* "not yet" and the outer call is blocked in park, the token is available
\* (the park returns and the computation is polled again), or at least a
\* handle is still held through which a wake can yet arrive.
C11_OuterWakeNotLost ==
    \A u \in Units :
        (AtPc(u, "parked") /\ Top(u).wokenNested) => (token[u] \/ held[u] > 0)

\* The positions of a call after its loop has ended.
Done == {"finalize", "traceEnd", "blockRet", "take"}

\* The step by which the innermost call first sees a wake on a stale handle.
StaleWakeStep(u) ==
    /\ Running(u) /\ ~Top(u).stale
    /\ Len(stack'[u]) = Len(stack[u])
    /\ stack'[u][Len(stack'[u])].stale

\* C12: a wake on a stale handle (cloned during an earlier call, woken after
\* that call returned) does nothing to a later call but make the token
\* available: the step changes no call's position, slot or counters and
\* releases nothing; the park that consumes the token goes to one more poll
\* and leaves no token behind; a call that saw such a wake leaves its loop
\* only after a poll of its own computation completed or failed and exits
\* with exactly that outcome; the Thread is never released while the
\* thread-local holds its share.
C12_StaleWakeHarmless ==
    /\ [](\A u \in Units : tls[u] = "live" => (released[u] = 0 /\ rc[u] >= 1))
    /\ [](\A u \in Units : \A i \in 1..Len(stack[u]) :
            (stack[u][i].stale /\ stack[u][i].pc \in Done)
                => stack[u][i].prod.kind \in {"ready", "panic"})
    /\ [](\A u \in Units :
            ret[u].stale =>
                /\ ret[u].prod.kind \in {"ready", "panic"}
                /\ ret[u].how = (IF ret[u].prod.kind = "ready" THEN "return" ELSE "raise")
                /\ ret[u].val = ret[u].prod.v)
    /\ [][\A u \in Units :
            StaleWakeStep(u) =>
                /\ stack'[u] = [k \in 1..Len(stack[u]) |-> [stack[u][k] EXCEPT !.stale = TRUE]]
                /\ token'[u]
                /\ UNCHANGED <<current, tls, released, trace, ret, nextId>>]_vars
    /\ [][\A u \in Units :
            (Running(u) /\ Top(u).stale /\ Top(u).pc \in {"park", "parked"}
                /\ token[u] /\ ~(AtPc(u, "park") \/ AtPc(u, "parked"))')
                => (AtPc(u, "poll")' /\ ~token'[u])]_vars

\* The second call on the unit saw a wake on a handle left by the first: its
\* one park returned at once, the extra poll was ready and it returned 43.
C12_Witness ==
    \E u \in Units :
        /\ ret[u].stale /\ ret[u].id = 2 /\ ret[u].parent = 0
        /\ ret[u].how = "return" /\ ret[u].val = 43
        /\ ret[u].pend = 1 /\ ret[u].parks = 1 /\ ret[u].quick = 1

\* C13: the loop parks only after a poll that reported "not yet", once per
\* such poll, and never after a poll that completed: a call has parked as
\* often as its polls reported "not yet" (one less while the park for the
\* last of them has not begun), it is in or before a park only with its
\* computation not completed and its slot empty, and an exited call has
\* parked exactly as often as its computation reported "not yet".
C13_ParkOncePerPending ==
    \A u \in Units :
        /\ \A i \in 1..Len(stack[u]) :
              LET f == stack[u][i]
              IN  /\ f.parks = (IF f.pc = "park" THEN f.pend - 1 ELSE f.pend)
                  /\ f.pc \in {"park", "parked"}
                        => (f.pend >= 1 /\ f.prod = NotPolled /\ f.out = None)
        /\ Exited(u) => ret[u].parks = ret[u].pend

\* A call whose computation reported "not yet" MaxPending times, each time
\* blocking in park, then completed: it returned 42 after MaxPending parks.
C13_Witness ==
    \E u \in Units :
        /\ ret[u].how = "return" /\ ret[u].val = 42
        /\ ret[u].pend = MaxPending /\ ret[u].parks = MaxPending /\ ret[u].quick = 0

\* C14: the loop ends only when the computation signals completion.  A call
\* is past its loop, or has exited, only with a poll of its computation that
\* reported completion or raised a failure; it leaves the loop only from
\* inside such a poll and exits only from the take of its outcome; and a
\* call blocked in park with no token either stays blocked or is polled
\* again: there is no timeout and no cancellation.
C14_EndsOnlyOnCompletion ==
    /\ [](\A u \in Units :
            /\ \A i \in 1..Len(stack[u]) :
                  stack[u][i].pc \in Done => stack[u][i].prod.kind \in {"ready", "panic"}
            /\ Exited(u) => ret[u].prod.kind \in {"ready", "panic"})
    /\ [][\A u \in Units :
            /\ (Running(u) /\ Len(stack'[u]) = Len(stack[u])
                  /\ Top(u).pc \notin Done /\ stack'[u][Len(stack'[u])].pc \in Done)
                    => (AtPc(u, "user")
                        /\ stack'[u][Len(stack'[u])].prod.kind \in {"ready", "panic"})
            /\ Len(stack'[u]) < Len(stack[u]) => AtPc(u, "take")
            /\ (AtPc(u, "parked") /\ ~token[u])
                    => (AtPc(u, "parked")' \/ (AtPc(u, "poll")' /\ ~token'[u]))]_vars

\* The computation has reported "not yet", the call is blocked in park, no
\* token is available and no handle is held anywhere: nothing ends the park.
C14_Witness ==
    \E u \in Units :
        /\ AtPc(u, "parked") /\ ~token[u] /\ held[u] = 0
        /\ Top(u).prod = NotPolled /\ Top(u).pend = MaxPending /\ Depth(u) = 1

\* C15: wakes issued with no park in between collapse to one notification.
\* The token is available exactly when one or more wakes are unconsumed; a
\* park that begins with wakes unconsumed returns at once to the next poll
\* and consumes them all, leaving no token; a park that begins with none
\* blocks; and a poll that reports "not yet" changes nothing of the call but
\* its position (it parks again): slot, outcome, finalizers, trace, current
\* task, token and shares stay as they were.
C15_WakesCollapse ==
    /\ [](\A u \in Units : token[u] <=> wakePending[u] > 0)
    /\ [][\A u \in Units :
            (AtPc(u, "park") /\ ~AtPc(u, "park")') =>
                IF wakePending[u] > 0
                THEN AtPc(u, "poll")' /\ ~token'[u] /\ wakePending'[u] = 0
                ELSE AtPc(u, "parked")' /\ ~token'[u]]_vars
    /\ [][\A u \in Units :
            (AtPc(u, "user") /\ AtPc(u, "park")') =>
                /\ stack'[u] = SetTop(u, [Top(u) EXCEPT !.pc = "park", !.pend = @ + 1])[u]
                /\ UNCHANGED <<token, current, tls, rc, released, held, trace,
                               nextId, wakePending>>]_vars

\* Two or more wakes were issued since the last park, the poll has reported
\* "not yet" and the call is about to park: one token is available.
C15_Witness ==
    \E u \in Units :
        AtPc(u, "park") /\ wakePending[u] = 2 /\ token[u] /\ Top(u).parks = 0

Writes(log) == Cardinality(Occurs(log, "stored") \cup Occurs(log, "captured"))
Reads(log) == Cardinality(Occurs(log, "returned") \cup Occurs(log, "raised"))

\* C16: the out slot is written exactly once per call, by the poll that
\* completed or failed, and read exactly once, after the loop has returned.
\* While a call is in its loop the slot is empty and unwritten; from the
\* completing poll on it holds that poll's outcome, written once and not yet
\* read, so the take finds it filled; an exited call wrote once, read once,
\* and read after block had returned.
C16_OutWrittenOnceReadOnce ==
    \A u \in Units :
        /\ \A f \in Frames(u) :
              /\ Reads(f.log) = 0
              /\ IF f.pc \in Done
                 THEN /\ f.out # None
                      /\ f.out = CatchUnwindPoll(f.prod).v
                      /\ Writes(f.log) = 1
                 ELSE f.out = None /\ Writes(f.log) = 0
        /\ Exited(u) =>
              /\ Writes(ret[u].log) = 1 /\ Reads(ret[u].log) = 1
              /\ Once(ret[u].log, "restored")
              /\ Before(ret[u].log, "stored", "restored")
              /\ Before(ret[u].log, "captured", "restored")
              /\ Before(ret[u].log, "restored", "returned")
              /\ Before(ret[u].log, "restored", "raised")
              /\ ret[u].how = "raise" => ret[u].val \in Payloads

\* A call whose second poll panicked: the failure was stored once, the loop
\* returned, the slot was read once and the failure re-raised.
C16_Witness ==
    \E u \in Units :
        /\ ret[u].pend = 1
        /\ ret[u].log = <<"captured", "finalized", "completed", "restored", "raised">>

\* ------------------------------------------------------------ two units
\* The setting of C17: each unit makes one un-nested call whose computation
\* completes with 42 after at most MaxPending polls that report "not yet";
\* handles of either unit are cloned, woken and dropped from anywhere.
two_spawn(u) == Depth(u) = 0 /\ trace[u] = <<>> /\ spawn_task_enter(u)

two_ready(u) == poll_ready(u, 42)

NextTwo ==
    \E u \in Units :
        \/ two_spawn(u)
        \/ poll_start(u)
        \/ two_ready(u)
        \/ poll_pending(u)
        \/ finalize(u)
        \/ trace_completed(u)
        \/ block_return(u)
        \/ take_out(u)
        \/ park(u)
        \/ park_return(u)
        \/ clone_raw(u)
        \/ wake_raw(u)
        \/ wake_by_ref_raw(u)
        \/ drop_raw(u)

TwoSpec == Init /\ [][NextTwo]_vars

\* C17: a wake on a handle unparks the unit whose call produced the handle
\* and no other.  A unit's token becomes available only by a wake issued on
\* a handle of that unit; a step that issues a wake on a handle of unit a
\* leaves the token and the calls of every other unit as they were; and a
\* blocked park of a unit returns only with that unit's own token.
C17_WakeUnparksOwnUnit ==
    /\ [](\A b \in Units : token[b] => wakePending[b] > 0)
    /\ [][\A b \in Units :
            /\ (~token[b] /\ token'[b]) => (wakePending[b] = 0 /\ wakePending'[b] = 1)
            /\ (AtPc(b, "parked") /\ AtPc(b, "poll")') => token[b]
            /\ \A a \in Units \ {b} :
                  (wakePending'[a] > wakePending[a] \/ (token'[a] /\ ~token[a]))
                      => (token'[b] = token[b] /\ stack'[b] = stack[b])]_vars

\* Both units are in their calls, unit 2 is blocked in park with no token,
\* and a wake on a handle of unit 1 has made unit 1's token available.
C17_Witness ==
    /\ AtPc(1, "parked") /\ token[1] /\ wakePending[1] = 1
    /\ AtPc(2, "parked") /\ ~token[2] /\ wakePending[2] = 0 /\ held[2] = 1

\* C18: the finalizers and the completion trace event of a call run while
\* the call's own task is current, and the prior one is put back only after
\* both and before the outcome is returned or re-raised.  From the end of the
\* computation until block returns the current task is the call's own; at
\* the take it is the prior one again, with finalizers and completion event
\* already done; and an exited call finalized, emitted its completion event,
\* restored and only then returned or re-raised, in this order.
C18_FinalizeUnderOwnTask ==
    \A u \in Units :
        /\ \A f \in Frames(u) : (Occurs(f.log, "restored") # {}) <=> (f.pc = "take")
        /\ (Running(u) /\ Top(u).pc \in {"finalize", "traceEnd", "blockRet"})
              => (current[u] = Top(u).id /\ current[u] # Top(u).prior)
        /\ AtPc(u, "take")
              => /\ current[u] = Top(u).prior
                 /\ Once(Top(u).log, "finalized") /\ Once(Top(u).log, "completed")
        /\ Exited(u) =>
              LET l == ret[u].log
              IN  /\ Once(l, "finalized") /\ Once(l, "completed") /\ Once(l, "restored")
                  /\ Before(l, "finalized", "restored")
                  /\ Before(l, "completed", "restored")
                  /\ Before(l, "restored", "returned")
                  /\ Before(l, "restored", "raised")
                  /\ Reads(l) = 1

\* A nested call that captured a failure has finalized and emitted its
\* completion event; block has returned, the enclosing call's task is
\* current again and the failure is about to be re-raised.
C18_Witness ==
    \E u \in Units :
        /\ Depth(u) = 2 /\ AtPc(u, "take") /\ Top(u).out.tag = "err"
        /\ current[u] = stack[u][1].id /\ Top(u).prior = stack[u][1].id
        /\ Top(u).log = <<"captured", "finalized", "completed", "restored">>

\* C19: the user computation is not polled again after one of its polls
\* reported completion or panicked.  A call has such a poll behind it exactly
\* when it is past its loop; from then on that outcome stays as it is and the
\* call never returns to a poll, a park or the user computation: the poll in
\* which the computation ended is the last poll of the wrapped future, which
\* finishes finalization and tracing in it.
C19_NoPollAfterEnd ==
    /\ [](\A u \in Units :
            /\ \A f \in Frames(u) : (f.prod # NotPolled) <=> (f.pc \in Done)
            /\ Exited(u) => ret[u].prod # NotPolled)
    /\ [][\A u \in Units : \A i \in 1..Len(stack[u]) :
            (stack[u][i].prod # NotPolled /\ i <= Len(stack'[u]))
                => /\ stack'[u][i].prod = stack[u][i].prod
                   /\ stack'[u][i].id = stack[u][i].id
                   /\ stack'[u][i].pc \in Done]_vars

\* The second poll of a call's computation panicked: the call is past its
\* loop, about to run its finalizers in the same poll.
C19_Witness ==
    \E u \in Units :
        /\ AtPc(u, "finalize") /\ Top(u).prod.kind = "panic" /\ Top(u).pend = 1
        /\ Top(u).out = Err(Top(u).prod.v)

====
